---- MODULE Spec2Model ----
(***************************************************************************)
(* A model of evaluation/evaluation.py: the CoNLL-U loader (extract_tokens), *)
(* the aligner (get_alignment, on difflib.SequenceMatcher) and the scorers  *)
(* (compute_tokenization_score, compute_accuracy, compute_uas_las).         *)
(*                                                                         *)
(* Python values are represented as follows.                               *)
(*   - An optional value (None or a value) is a sequence of length 0 or 1:  *)
(*     None is << >>, the value x is <<x>>.                                 *)
(*   - A Word is a record; `'f' in w.__dict__` is "f" \in DOMAIN w.         *)
(*   - A Python list is a sequence; Python index i is TLA+ index i + 1.     *)
(*   - A float quotient n / d is the pair <<n, d>> (an exact rational).     *)
(*   - A raised exception is its class name in the variable err.            *)
(***************************************************************************)
EXTENDS Integers, Sequences, FiniteSets, TLC

VARIABLES
    lines,        \* extract_tokens: the lines of the file consumed so far
    new_id,       \* extract_tokens: the corpus-wide counter
    res,          \* extract_tokens: the list of Words built so far
    token_pred,   \* the scorers' first argument
    token_gold,   \* the scorers' second argument
    fn,           \* the function that was called ("" before the call)
    pc,           \* its position: "start", "loop", "returned" or "raised"
    alignment,    \* the list returned by get_alignment
    idx,          \* compute_uas_las: the loop index i
    nb,           \* compute_uas_las: the six counters
    result,       \* the value returned by the function that ran
    err           \* the exception raised, or NoError

vars == <<lines, new_id, res, token_pred, token_gold, fn, pc, alignment, idx, nb,
          result, err>>

-----------------------------------------------------------------------------
(* Bounds of the model. *)

\* longest token sequence given to the aligner and the tokenization score
MaxLen == 4
\* longest token sequence given to the attachment scorer
MaxTok == 3
\* most lines of one file
MaxLines == 3
\* largest original (per-sentence) id or head of a row
MaxOrigId == 3

-----------------------------------------------------------------------------
(* Python values. *)

None == << >>
Some(x) == <<x>>
NoError == "none"

Min(x, y) == IF x <= y THEN x ELSE y

\* a[lo:hi] for 0 <= lo <= hi: the slice stops at the end of the list
Slice(a, lo, hi) == [n \in 1..(Min(hi, Len(a)) - Min(lo, Len(a))) |-> a[lo + n]]

\* Word.__eq__: two Words are equal when they have the same form (or both
\* have no form attribute).
WordEq(self, other) ==
    IF "form" \notin DOMAIN self THEN "form" \notin DOMAIN other
    ELSE IF "form" \notin DOMAIN other THEN FALSE
    ELSE self.form = other.form

-----------------------------------------------------------------------------
(* difflib.SequenceMatcher(None, a, b, autojunk=False), as get_alignment   *)
(* uses it: no junk, elements compared with Word.__eq__.                   *)

\* length of the common run a[i:i+k] == b[j:j+k] inside a[:ahi], b[:bhi]
RECURSIVE RunLen(_, _, _, _, _, _)
RunLen(a, b, i, j, ahi, bhi) ==
    IF i < ahi /\ j < bhi /\ WordEq(a[i + 1], b[j + 1])
    THEN 1 + RunLen(a, b, i + 1, j + 1, ahi, bhi)
    ELSE 0

\* find_longest_match(alo, ahi, blo, bhi): <<i, j, k>>, the longest block
\* a[i:i+k] == b[j:j+k] in the window; of the longest, the one that starts
\* earliest in a, and of those the one that starts earliest in b (the scan
\* takes i ascending, j ascending, and replaces the best only on k > best).
\* <<alo, blo, 0>> when nothing matches.
find_longest_match(a, b, alo, ahi, blo, bhi) ==
    LET runs == {<<i, j, RunLen(a, b, i, j, ahi, bhi)>> :
                    i \in alo..(ahi - 1), j \in blo..(bhi - 1)}
        hits == {r \in runs : r[3] > 0}
    IN  IF hits = {} THEN <<alo, blo, 0>>
        ELSE CHOOSE r \in hits :
                \A d \in hits :
                    \/ r[3] > d[3]
                    \/ /\ r[3] = d[3]
                       /\ \/ r[1] < d[1]
                          \/ r[1] = d[1] /\ r[2] <= d[2]

\* The matching blocks of get_matching_blocks before adjacent blocks are
\* merged: the longest match of the window, then the windows left and right
\* of it, in increasing order of i.
RECURSIVE MatchBlocks(_, _, _, _, _, _)
MatchBlocks(a, b, alo, ahi, blo, bhi) ==
    LET m == find_longest_match(a, b, alo, ahi, blo, bhi)
        i == m[1]
        j == m[2]
        k == m[3]
    IN  IF k = 0 THEN << >>
        ELSE (IF alo < i /\ blo < j
              THEN MatchBlocks(a, b, alo, i, blo, j) ELSE << >>)
             \o <<m>>
             \o (IF i + k < ahi /\ j + k < bhi
                 THEN MatchBlocks(a, b, i + k, ahi, j + k, bhi) ELSE << >>)

\* get_matching_blocks collapses adjacent blocks into one.
RECURSIVE MergeAdjacent(_, _)
MergeAdjacent(blocks, cur) ==
    IF blocks = << >> THEN (IF cur[3] > 0 THEN <<cur>> ELSE << >>)
    ELSE LET nxt == Head(blocks)
         IN  IF cur[1] + cur[3] = nxt[1] /\ cur[2] + cur[3] = nxt[2]
             THEN MergeAdjacent(Tail(blocks), <<cur[1], cur[2], cur[3] + nxt[3]>>)
             ELSE (IF cur[3] > 0 THEN <<cur>> ELSE << >>)
                  \o MergeAdjacent(Tail(blocks), nxt)

\* get_matching_blocks: the merged blocks and the closing (la, lb, 0).
get_matching_blocks(a, b) ==
    MergeAdjacent(MatchBlocks(a, b, 0, Len(a), 0, Len(b)), <<0, 0, 0>>)
        \o <<<<Len(a), Len(b), 0>>>>

\* get_opcodes: one (tag, i1, i2, j1, j2) for the gap before each matching
\* block, when there is one, then one 'equal' for the block.
RECURSIVE OpcodesFrom(_, _, _)
OpcodesFrom(blocks, i, j) ==
    IF blocks = << >> THEN << >>
    ELSE LET ai == Head(blocks)[1]
             bj == Head(blocks)[2]
             size == Head(blocks)[3]
             tag == IF i < ai /\ j < bj THEN "replace"
                    ELSE IF i < ai THEN "delete"
                    ELSE IF j < bj THEN "insert"
                    ELSE ""
         IN  (IF tag # "" THEN <<<<tag, i, ai, j, bj>>>> ELSE << >>)
             \o (IF size > 0
                 THEN <<<<"equal", ai, ai + size, bj, bj + size>>>> ELSE << >>)
             \o OpcodesFrom(Tail(blocks), ai + size, bj + size)

get_opcodes(a, b) == OpcodesFrom(get_matching_blocks(a, b), 0, 0)

\* zip(x, y): pairs up to the shorter of the two
Zip(x, y) == [n \in 1..Min(Len(x), Len(y)) |-> <<x[n], y[n]>>]

\* a variant of AlignedEdit that also pairs the slices of a replacement
AlignedEditOrReplace(edit) == edit \in {"equal", "replace"}

\* the opcodes whose slices are paired
AlignedEdit(edit) == edit = "equal"

\* a variant of PairSlices that cuts gold at pred's bounds
PairSlicesPredBounds(pred, gold, diff) ==
    Zip(Slice(pred, diff[2], diff[3]), Slice(gold, diff[2], diff[3]))

\* zip(pred[pred_lo:pred_hi], gold[gold_lo:gold_hi])
PairSlices(pred, gold, diff) ==
    Zip(Slice(pred, diff[2], diff[3]), Slice(gold, diff[4], diff[5]))

\* the body of get_alignment's loop over the opcodes
RECURSIVE ExtendAligned(_, _, _)
ExtendAligned(ops, pred, gold) ==
    IF ops = << >> THEN << >>
    ELSE LET diff == Head(ops)
         IN  (IF AlignedEdit(diff[1])
              THEN PairSlices(pred, gold, diff)
              ELSE << >>)
             \o ExtendAligned(Tail(ops), pred, gold)

get_alignment(pred, gold) == ExtendAligned(get_opcodes(pred, gold), pred, gold)

-----------------------------------------------------------------------------
(* Results of a call: a function either returns a value or raises.         *)

Return(v) == [exc |-> NoError, val |-> v]
Raise(e) == [exc |-> e, val |-> None]

\* tokens[index] with Python's indexing: a negative index counts from the
\* end, an index outside -len .. len-1 raises IndexError.
InRange(tokens, index) == -Len(tokens) <= index /\ index < Len(tokens)
PyGet(tokens, index) ==
    IF index >= 0 THEN tokens[index + 1] ELSE tokens[Len(tokens) + index + 1]

\* 'f' in w.__dict__ and w.f is not None
Defined(w, f) == f \in DOMAIN w /\ w[f] # None

-----------------------------------------------------------------------------
(* compute_tokenization_score *)

\* nb_correct: the aligned pairs whose forms are equal
NbCorrectForms(al) == Cardinality({n \in 1..Len(al) : al[n][1].form = al[n][2].form})

\* a variant of TokenizationTotal that counts the predicted tokens
TokenizationTotalPred(pred, gold) == Len(pred)

\* total of the quotient of compute_tokenization_score
TokenizationTotal(pred, gold) == Len(gold)

compute_tokenization_score(pred, gold) ==
    LET al == get_alignment(pred, gold)
        nb_correct == NbCorrectForms(al)
        total == TokenizationTotal(pred, gold)
    IN  IF total = 0 THEN Raise("ZeroDivisionError")
        ELSE Return(<<nb_correct, total>>)

-----------------------------------------------------------------------------
(* compute_accuracy *)

\* correct_upos of one aligned pair
CorrectUpos(pred_word, gold_word) ==
    LET gold_without_upos == gold_word.upos = None
    IN  (pred_word.upos # None /\ pred_word.upos = gold_word.upos)
            \/ gold_without_upos

compute_accuracy(pred, gold) ==
    LET al == get_alignment(pred, gold)
        total == Len(al)
        nb_correct == Cardinality({n \in 1..Len(al) : CorrectUpos(al[n][1], al[n][2])})
    IN  IF total = 0 THEN Raise("ZeroDivisionError")
        ELSE Return(<<nb_correct, total>>)

-----------------------------------------------------------------------------
(* get_head_from_id *)

\* the Word standing for the root: id 0 and an empty form
RootWord == [id |-> 0, form |-> Some("")]

\* the scan to the left: while token.head < current_token.id: index -= 1
RECURSIVE ScanLeft(_, _, _)
ScanLeft(tokens, head, index) ==
    IF ~InRange(tokens, index) THEN Raise("IndexError")
    ELSE IF head < PyGet(tokens, index).id THEN ScanLeft(tokens, head, index - 1)
    ELSE Return(Some(PyGet(tokens, index)))

\* the scan to the right: while token.head > current_token.id: index += 1
RECURSIVE ScanRight(_, _, _)
ScanRight(tokens, head, index) ==
    IF ~InRange(tokens, index) THEN Raise("IndexError")
    ELSE IF head > PyGet(tokens, index).id THEN ScanRight(tokens, head, index + 1)
    ELSE Return(Some(PyGet(tokens, index)))

\* the for loop of get_head_from_id from Python index i on
RECURSIVE HeadFrom(_, _, _)
HeadFrom(tokens, token_id, i) ==
    IF i >= Len(tokens) THEN Return(None)
    ELSE LET token == tokens[i + 1]
         IN  IF token.id # token_id THEN HeadFrom(tokens, token_id, i + 1)
             ELSE IF ~Defined(token, "head") THEN Return(None)
             ELSE IF token.head[1] = 0 THEN Return(Some(RootWord))
             ELSE LET found ==
                          IF token.head[1] < token.id
                          THEN ScanLeft(tokens, token.head[1], i - 1)
                          ELSE IF token.head[1] > token.id
                          THEN ScanRight(tokens, token.head[1], i + 1)
                          ELSE Raise("AttributeError")
                  IN  IF found.exc # NoError THEN found
                      ELSE IF "form" \in DOMAIN found.val[1] THEN found
                      ELSE HeadFrom(tokens, token_id, i + 1)

get_head_from_id(tokens, token_id) == HeadFrom(tokens, token_id, 0)

-----------------------------------------------------------------------------
(* compute_diff_word_head *)

\* the first Python index i with tokens[i].id == w.id, or len(tokens)
RECURSIVE FindWord(_, _, _)
FindWord(tokens, w, i) ==
    IF i < Len(tokens) /\ tokens[i + 1].id # w.id THEN FindWord(tokens, w, i + 1)
    ELSE i

\* if i >= 0 and i < len(tokens): return res; return None
DiffResult(tokens, i, r) ==
    IF i >= 0 /\ i < Len(tokens) THEN Return(Some(r)) ELSE Return(None)

\* while tokens[i].id > w.head and i >= 0: res -= 1; i -= 1
RECURSIVE MoveLeft(_, _, _, _)
MoveLeft(tokens, w, i, r) ==
    IF ~InRange(tokens, i) THEN Raise("IndexError")
    ELSE IF PyGet(tokens, i).id > w.head[1] /\ i >= 0
         THEN MoveLeft(tokens, w, i - 1, r - 1)
         ELSE DiffResult(tokens, i, r)

\* while tokens[i].id < w.head and i < len(tokens): res += 1; i += 1
RECURSIVE MoveRight(_, _, _, _)
MoveRight(tokens, w, i, r) ==
    IF ~InRange(tokens, i) THEN Raise("IndexError")
    ELSE IF PyGet(tokens, i).id < w.head[1] /\ i < Len(tokens)
         THEN MoveRight(tokens, w, i + 1, r + 1)
         ELSE DiffResult(tokens, i, r)

compute_diff_word_head(tokens, w) ==
    LET i == FindWord(tokens, w, 0)
    IN  IF i >= Len(tokens) THEN Raise("ValueError")
        ELSE IF w.head[1] < w.id THEN MoveLeft(tokens, w, i, 0)
        ELSE MoveRight(tokens, w, i, 0)

-----------------------------------------------------------------------------
(* compute_uas_las *)

ZeroCounters ==
    [correct_governor |-> 0, correct_governor_label |-> 0,
     total_pred_uas |-> 0, total_gold_uas |-> 0,
     total_pred_las |-> 0, total_gold_las |-> 0]

\* pred_align = [x[0] for x in alignment], gold_align = [x[1] for x in alignment]
Column(al, c) == [n \in 1..Len(al) |-> al[n][c]]

\* correct_governor: head_pred == head_gold and head_pred is not None
\* (== is Word.__eq__ when head_pred is a Word)
CorrectGovernor(head_pred, head_gold) ==
    /\ head_pred # None
    /\ head_gold # None
    /\ WordEq(head_pred[1], head_gold[1])

\* a variant of CorrectAttachment that compares the governors by form alone
CorrectAttachmentFormOnly(head_pred, head_gold, diff_pred, diff_gold) ==
    CorrectGovernor(head_pred, head_gold)

\* correct_governor and correct_diff, the condition of the UAS numerator
CorrectAttachment(head_pred, head_gold, diff_pred, diff_gold) ==
    CorrectGovernor(head_pred, head_gold) /\ diff_pred = diff_gold

\* the condition of the LAS numerator, given that of the UAS numerator
CorrectLabel(p, g, attached) ==
    /\ Defined(p, "head") /\ Defined(p, "deprel")
    /\ Defined(g, "head") /\ Defined(g, "deprel")
    /\ attached
    /\ p.deprel = g.deprel

\* One iteration of the loop on the pair `align`: the counters after it, or
\* the exception it raises.
UasIteration(pred_tokens, gold_tokens, al, align, c) ==
    LET p == align[1]
        g == align[2]
        pred_exists_uas == Defined(p, "head")
        pred_exists_las == pred_exists_uas /\ Defined(p, "deprel")
        gold_exists_uas == Defined(g, "head")
        gold_exists_las == gold_exists_uas /\ Defined(g, "deprel")
        head_pred == get_head_from_id(pred_tokens, p.id)
        head_gold == get_head_from_id(gold_tokens, g.id)
        diff_pred == compute_diff_word_head(Column(al, 1), p)
        diff_gold == compute_diff_word_head(Column(al, 2), g)
    IN  IF head_pred.exc # NoError THEN Raise(head_pred.exc)
        ELSE IF head_gold.exc # NoError THEN Raise(head_gold.exc)
        ELSE IF pred_exists_uas /\ gold_exists_uas /\ diff_pred.exc # NoError
        THEN Raise(diff_pred.exc)
        ELSE IF pred_exists_uas /\ gold_exists_uas /\ diff_gold.exc # NoError
        THEN Raise(diff_gold.exc)
        ELSE LET attached ==
                     /\ pred_exists_uas
                     /\ gold_exists_uas
                     /\ CorrectAttachment(head_pred.val, head_gold.val,
                                          diff_pred.val, diff_gold.val)
                 inc(b) == IF b THEN 1 ELSE 0
             IN  Return(
                   [correct_governor |-> c.correct_governor + inc(attached),
                    correct_governor_label |->
                        c.correct_governor_label + inc(CorrectLabel(p, g, attached)),
                    total_pred_uas |-> c.total_pred_uas + inc(pred_exists_uas),
                    total_gold_uas |-> c.total_gold_uas + inc(gold_exists_uas),
                    total_pred_las |-> c.total_pred_las + inc(pred_exists_las),
                    total_gold_las |-> c.total_gold_las + inc(gold_exists_las)])

\* exact arithmetic on quotients <<n, d>>, d > 0
RatZero(x) == x[1] = 0
RatAdd(x, y) == <<x[1] * y[2] + y[1] * x[2], x[2] * y[2]>>
RatMul(x, y) == <<x[1] * y[1], x[2] * y[2]>>
RatDiv(x, y) == <<x[1] * y[2], x[2] * y[1]>>

\* the F1 of a precision and a recall, 0.0 when both are 0
F1(precision, recall) ==
    IF RatZero(precision) /\ RatZero(recall) THEN <<0, 1>>
    ELSE RatDiv(RatMul(<<2, 1>>, RatMul(precision, recall)),
                RatAdd(precision, recall))

\* the results dictionary built after the loop
UasResults(c) ==
    IF c.total_pred_uas = 0 \/ c.total_gold_uas = 0
          \/ c.total_pred_las = 0 \/ c.total_gold_las = 0
    THEN Raise("ZeroDivisionError")
    ELSE LET up == <<c.correct_governor, c.total_pred_uas>>
             ur == <<c.correct_governor, c.total_gold_uas>>
             lp == <<c.correct_governor_label, c.total_pred_las>>
             lr == <<c.correct_governor_label, c.total_gold_las>>
         IN  Return(("UAS precision" :> up) @@ ("UAS recall" :> ur)
                    @@ ("UAS" :> F1(up, ur))
                    @@ ("LAS precision" :> lp) @@ ("LAS recall" :> lr)
                    @@ ("LAS" :> F1(lp, lr)))

-----------------------------------------------------------------------------
(* The scorers as actions: a call on the arguments token_pred, token_gold.  *)

Idle == fn = "" /\ pc = "start"

\* what a call that runs to its end leaves behind
Finish(name, al, r) ==
    /\ fn' = name
    /\ alignment' = al
    /\ pc' = IF r.exc = NoError THEN "returned" ELSE "raised"
    /\ result' = r.val
    /\ err' = r.exc
    /\ UNCHANGED <<lines, new_id, res, token_pred, token_gold, idx, nb>>

CallGetAlignment ==
    /\ Idle
    /\ LET al == get_alignment(token_pred, token_gold)
       IN  Finish("get_alignment", al, Return(al))

CallTokenizationScore ==
    /\ Idle
    /\ Finish("compute_tokenization_score",
              get_alignment(token_pred, token_gold),
              compute_tokenization_score(token_pred, token_gold))

CallAccuracy ==
    /\ Idle
    /\ Finish("compute_accuracy",
              get_alignment(token_pred, token_gold),
              compute_accuracy(token_pred, token_gold))

\* compute_uas_las up to the loop: the counters at 0, the alignment computed
UasStart ==
    /\ Idle
    /\ fn' = "compute_uas_las"
    /\ pc' = "loop"
    /\ alignment' = get_alignment(token_pred, token_gold)
    /\ idx' = 0
    /\ nb' = ZeroCounters
    /\ UNCHANGED <<lines, new_id, res, token_pred, token_gold, result, err>>

\* one iteration of the loop
UasStep ==
    /\ fn = "compute_uas_las"
    /\ pc = "loop"
    /\ idx < Len(alignment)
    /\ LET r == UasIteration(token_pred, token_gold, alignment,
                             alignment[idx + 1], nb)
       IN  IF r.exc = NoError
           THEN /\ nb' = r.val
                /\ idx' = idx + 1
                /\ UNCHANGED <<pc, err>>
           ELSE /\ pc' = "raised"
                /\ err' = r.exc
                /\ UNCHANGED <<nb, idx>>
    /\ UNCHANGED <<lines, new_id, res, token_pred, token_gold, fn, alignment, result>>

\* after the loop: the six quotients, or the division by zero
UasFinish ==
    /\ fn = "compute_uas_las"
    /\ pc = "loop"
    /\ idx = Len(alignment)
    /\ LET r == UasResults(nb)
       IN  /\ pc' = IF r.exc = NoError THEN "returned" ELSE "raised"
           /\ result' = r.val
           /\ err' = r.exc
    /\ UNCHANGED <<lines, new_id, res, token_pred, token_gold, fn, alignment, idx, nb>>

-----------------------------------------------------------------------------
(* Arguments of the scorers. *)

\* the Word of a row whose columns other than id and form are '_'
PlainWord(k, f) ==
    [id |-> k, form |-> f, upos |-> None, head |-> None, deprel |-> None]

AlignForms == {None, Some("bank"), Some("river")}

\* token sequences of up to MaxLen Words, ids 1, 2, ...
PlainTokens ==
    UNION {{[k \in 1..n |-> PlainWord(k, forms[k])] : forms \in [1..n -> AlignForms]}
           : n \in 0..MaxLen}

ScoreForms == {Some("bank"), Some("river")}

\* An annotated sequence: every token is attached to the root, except the
\* one at position focus (when there is one), whose head is absent, the root
\* or any other token, and which is labelled det with upos DET or not
\* annotated.
AnnotatedWord(k, f, focus, h, labelled) ==
    IF k # focus
    THEN [id |-> k, form |-> f, upos |-> Some("NOUN"), head |-> Some(0),
          deprel |-> Some("root")]
    ELSE [id |-> k, form |-> f,
          upos |-> IF labelled THEN Some("DET") ELSE None,
          head |-> h,
          deprel |-> IF labelled THEN Some("det") ELSE None]

HeadChoices(n, k) == {None, Some(0)} \cup {Some(h) : h \in (1..n) \ {k}}

AnnotatedTokens(focus) ==
    UNION {
      {[k \in 1..n |-> AnnotatedWord(k, forms[k], focus, h, labelled)] :
          forms \in [1..n -> ScoreForms], h \in HeadChoices(n, focus),
          labelled \in BOOLEAN}
      : n \in 0..MaxTok}

ScorerStart ==
    /\ lines = << >>
    /\ new_id = 1
    /\ res = << >>
    /\ fn = ""
    /\ pc = "start"
    /\ alignment = << >>
    /\ idx = 0
    /\ nb = ZeroCounters
    /\ result = None
    /\ err = NoError

InitAlign ==
    /\ token_pred \in PlainTokens
    /\ token_gold \in PlainTokens
    /\ ScorerStart

NextAlign == CallGetAlignment \/ CallTokenizationScore

\* one call of the aligner or of the tokenization score
SpecAlign == InitAlign /\ [][NextAlign]_vars

InitScore ==
    /\ \E focus \in 1..MaxTok :
          /\ token_pred \in AnnotatedTokens(focus)
          /\ token_gold \in AnnotatedTokens(focus)
    /\ ScorerStart

NextUas == UasStart \/ UasStep \/ UasFinish

\* one call of compute_uas_las
SpecUas == InitScore /\ [][NextUas]_vars

NextScore ==
    \/ CallGetAlignment
    \/ CallTokenizationScore
    \/ CallAccuracy
    \/ UasStart
    \/ UasStep
    \/ UasFinish

\* one call of any scorer
SpecScore == InitScore /\ [][NextScore]_vars

-----------------------------------------------------------------------------
(* extract_tokens *)

(* A line is the list line.split('\t'): its fields as strings, the last one *)
(* ending with the line's "\n".                                            *)

\* the numbers the rows of the model write in their id and head columns
Numerals == 0..MaxOrigId

\* int(s): the number that s writes, a trailing newline allowed
IsInt(s) == \E n \in Numerals : s = ToString(n) \/ s = ToString(n) \o "\n"
IntOf(s) == CHOOSE n \in Numerals : s = ToString(n) \/ s = ToString(n) \o "\n"

\* re.search('^[0-9]+\t', line): the first field is a number and a tab
\* follows it
MatchesRegexId(line) ==
    /\ Len(line) >= 2
    /\ \E n \in Numerals : line[1] = ToString(n)

\* while len(fields) < 10: fields.append('_')
RECURSIVE Complete(_)
Complete(fields) ==
    IF Len(fields) < 10 THEN Complete(Append(fields, "_")) ELSE fields

\* fields[k] if fields[k] != '_' else None
OrNone(s) == IF s = "_" THEN None ELSE Some(s)

\* a variant of RenumberHead that shifts the root as well
RenumberHeadRootShifted(head, id, newid) == newid + (head - id)

\* the head of the Word: the governor's offset head - id carried over to the
\* new id, the root 0 kept
RenumberHead(head, id, newid) ==
    IF head # 0 THEN newid + (head - id) ELSE head

\* the head column: None for '_', else int() and the renumbering
ParseHead(s, id, newid) ==
    IF s = "_" THEN Return(None)
    ELSE IF ~IsInt(s) THEN Raise("ValueError")
    ELSE Return(Some(RenumberHead(IntOf(s), id, newid)))

\* the misc column: None for "_\n"; else every '|' part is split at '=' into
\* key and value, the value losing its last character. A part without '='
\* cannot be unpacked into key, value.
ParseMisc(s) ==
    IF s = "_\n" THEN Return(None)
    ELSE IF s = "SpaceAfter=No\n" THEN Return(Some("SpaceAfter" :> "No"))
    ELSE Raise("ValueError")

\* the feats column: None for '_', else the key=value parts
ParseFeats(s) ==
    IF s = "_" THEN None
    ELSE IF s = "Number=Sing" THEN Some("Number" :> "Sing")
    ELSE Some(<< >>)

\* the body of the loop for a line that matches: the Word it appends, or the
\* exception it raises
ParseLine(line, newid) ==
    LET fields == Complete(line)
        id == IntOf(fields[1])
        head == ParseHead(fields[7], id, newid)
        misc == ParseMisc(fields[10])
    IN  IF head.exc # NoError THEN head
        ELSE IF misc.exc # NoError THEN misc
        ELSE Return([id |-> newid,
                     form |-> OrNone(fields[2]),
                     lemma |-> OrNone(fields[3]),
                     upos |-> OrNone(fields[4]),
                     xpos |-> OrNone(fields[5]),
                     feats |-> ParseFeats(fields[6]),
                     head |-> head.val,
                     deprel |-> OrNone(fields[8]),
                     deps |-> OrNone(fields[9]),
                     misc |-> misc.val])

\* The lines of the model's files.
HeadColumns == {"_"} \cup {ToString(h) : h \in Numerals}

\* a row of ten fields
FullRow(id, head, misc) ==
    <<ToString(id), "bank", "_", "_", "_", "_", head,
      IF head = "_" THEN "_" ELSE "dep", "_", misc>>

\* a row cut after the head column, and one cut after the form
RowOf7(id, head) == <<ToString(id), "bank", "_", "_", "_", "_", head \o "\n">>
RowOf2(id) == <<ToString(id), "bank\n">>

\* the row of a multiword token, and the empty line between two sentences
RangeRow == <<"1-2", "banks", "_", "_", "_", "_", "_", "_", "_", "_\n">>
BlankLine == <<"\n">>

Lines ==
    {FullRow(id, head, "_\n") : id \in 1..MaxOrigId, head \in HeadColumns}
    \cup {FullRow(1, "0", "SpaceAfter=No\n")}
    \cup {RowOf7(id, head) : id \in 1..MaxOrigId, head \in {"_", "0"}}
    \cup {RowOf2(id) : id \in 1..MaxOrigId}
    \cup {RangeRow, BlankLine}

InitLoad ==
    /\ lines = << >>
    /\ new_id = 1
    /\ res = << >>
    /\ token_pred = << >>
    /\ token_gold = << >>
    /\ fn = "extract_tokens"
    /\ pc = "loop"
    /\ alignment = << >>
    /\ idx = 0
    /\ nb = ZeroCounters
    /\ result = None
    /\ err = NoError

\* one iteration of `for line in lines`
ReadLine ==
    /\ fn = "extract_tokens"
    /\ pc = "loop"
    /\ Len(lines) < MaxLines
    /\ \E line \in Lines :
          /\ lines' = Append(lines, line)
          /\ IF ~MatchesRegexId(line)
             THEN UNCHANGED <<new_id, res, pc, err>>
             ELSE LET w == ParseLine(line, new_id)
                  IN  IF w.exc # NoError
                      THEN /\ pc' = "raised"
                           /\ err' = w.exc
                           /\ UNCHANGED <<new_id, res>>
                      ELSE /\ res' = Append(res, w.val)
                           /\ new_id' = new_id + 1
                           /\ UNCHANGED <<pc, err>>
    /\ UNCHANGED <<token_pred, token_gold, fn, alignment, idx, nb, result>>

\* return res, at the end of the file
ReturnRes ==
    /\ fn = "extract_tokens"
    /\ pc = "loop"
    /\ pc' = "returned"
    /\ result' = res
    /\ UNCHANGED <<lines, new_id, res, token_pred, token_gold, fn, alignment,
                   idx, nb, err>>

NextLoad == ReadLine \/ ReturnRes

\* one call of extract_tokens
SpecLoad == InitLoad /\ [][NextLoad]_vars

-----------------------------------------------------------------------------
(* Properties of compute_uas_las. *)

\* the pair the loop handles in its k-th iteration, k = 1, 2, ...
PairAt(k) == alignment[k]

\* the governor get_head_from_id resolves in the full sequence
GovernorPred(k) == get_head_from_id(token_pred, PairAt(k)[1].id).val
GovernorGold(k) == get_head_from_id(token_gold, PairAt(k)[2].id).val

\* the offset compute_diff_word_head gives inside the aligned subsequence
OffsetPred(k) == compute_diff_word_head(Column(alignment, 1), PairAt(k)[1]).val
OffsetGold(k) == compute_diff_word_head(Column(alignment, 2), PairAt(k)[2]).val

BothHeadsDefined(k) == PairAt(k)[1].head # None /\ PairAt(k)[2].head # None

SameGovernorForm(k) ==
    /\ GovernorPred(k) # None
    /\ GovernorGold(k) # None
    /\ GovernorPred(k)[1].form = GovernorGold(k)[1].form

BothLabelsEqual(k) ==
    /\ PairAt(k)[1].deprel # None
    /\ PairAt(k)[2].deprel # None
    /\ PairAt(k)[1].deprel = PairAt(k)[2].deprel

\* C1: an iteration of compute_uas_las that handles a pair adds it to the
\* UAS numerator exactly when both heads are defined, the two governors
\* resolved by get_head_from_id have the same form and the two offsets of
\* compute_diff_word_head are equal; it adds it to the LAS numerator only if,
\* besides, both deprel are defined and equal. Governors of the same form at
\* different offsets are not counted.
C1_AttachmentCounted ==
    [][(fn = "compute_uas_las" /\ pc = "loop" /\ idx' = idx + 1) =>
         LET k == idx + 1
             uas == nb'.correct_governor - nb.correct_governor
             las == nb'.correct_governor_label - nb.correct_governor_label
             holds == /\ BothHeadsDefined(k)
                      /\ SameGovernorForm(k)
                      /\ OffsetPred(k) = OffsetGold(k)
         IN  /\ uas \in {0, 1}
             /\ las \in {0, 1}
             /\ (uas = 1) <=> holds
             /\ (las = 1) => (holds /\ BothLabelsEqual(k))
             /\ (BothHeadsDefined(k) /\ SameGovernorForm(k)
                    /\ OffsetPred(k) # OffsetGold(k)) => uas = 0
      ]_vars

\* Witness of C1: the third pair has two governors that are tokens of the
\* same form at different offsets, and only the first two pairs were counted.
C1_Witness ==
    /\ fn = "compute_uas_las"
    /\ pc = "loop"
    /\ idx = 3
    /\ BothHeadsDefined(3)
    /\ SameGovernorForm(3)
    /\ GovernorPred(3)[1].id # 0
    /\ GovernorGold(3)[1].id # 0
    /\ OffsetPred(3) # OffsetGold(3)
    /\ nb.correct_governor = 2

\* ids 1, 2, ... and every head absent, 0 or the id of another token
WellFormed(tokens) ==
    \A k \in 1..Len(tokens) :
        /\ tokens[k].id = k
        /\ \/ tokens[k].head = None
           \/ tokens[k].head[1] = 0
           \/ tokens[k].head[1] \in (1..Len(tokens)) \ {k}

\* an aligned token of the given side has a head and a deprel
HasScoredToken(side) ==
    \E k \in 1..Len(alignment) :
        PairAt(k)[side].head # None /\ PairAt(k)[side].deprel # None

UasKeys == {"UAS precision", "UAS recall", "UAS", "LAS precision", "LAS recall", "LAS"}

\* a quotient in [0, 1]
InUnit(q) == q[2] > 0 /\ 0 <= q[1] /\ q[1] <= q[2]

\* C2: on well-formed sequences with an aligned token with head and deprel
\* on each side, compute_uas_las raises no error and returns the mapping with
\* the six keys, every value in [0, 1], also when a governor is not aligned.
C2_UasTotal ==
    (/\ fn = "compute_uas_las"
     /\ WellFormed(token_pred)
     /\ WellFormed(token_gold)
     /\ HasScoredToken(1)
     /\ HasScoredToken(2))
    => /\ pc # "raised"
       /\ pc = "returned" =>
            /\ DOMAIN result = UasKeys
            /\ \A key \in UasKeys : InUnit(result[key])

-----------------------------------------------------------------------------
(* Properties of get_alignment and compute_tokenization_score. *)

FormsOf(tokens) == [k \in 1..Len(tokens) |-> tokens[k].form]

\* C3: every pair of get_alignment has two tokens of the same form, its pred
\* tokens are tokens of pred at strictly increasing positions and its gold
\* tokens are tokens of gold at strictly increasing positions.
C3_AlignmentOrdered ==
    (fn = "get_alignment" /\ pc = "returned") =>
        /\ Len(result) <= Min(Len(token_pred), Len(token_gold))
        /\ \A n \in 1..Len(result) :
              /\ result[n][1].form = result[n][2].form
              /\ result[n][1].id \in 1..Len(token_pred)
              /\ result[n][2].id \in 1..Len(token_gold)
              /\ result[n][1] = token_pred[result[n][1].id]
              /\ result[n][2] = token_gold[result[n][2].id]
        /\ \A n \in 1..(Len(result) - 1) :
              /\ result[n][1].id < result[n + 1][1].id
              /\ result[n][2].id < result[n + 1][2].id

\* Witness of C3: two pairs, with a token of pred and a token of gold
\* skipped between them, and tokens left without a pair on both sides.
C3_Witness ==
    /\ fn = "get_alignment"
    /\ pc = "returned"
    /\ Len(result) = 2
    /\ result[2][1].id > result[1][1].id + 1
    /\ result[2][2].id > result[1][2].id + 1
    /\ Len(token_pred) > 3
    /\ Len(token_gold) > 3

\* C4 as stated: get_alignment(a, b) and get_alignment(b, a) return the same
\* number of pairs.
C4_SameCount ==
    (fn = "get_alignment" /\ pc = "returned") =>
        Len(result) = Len(get_alignment(token_gold, token_pred))

\* C4 as amended: get_alignment(a, b) is empty exactly when get_alignment(b, a)
\* is empty, and the two return the same number of pairs when a or b has at
\* most one token.
C4_SameEmptiness ==
    (fn = "get_alignment" /\ pc = "returned") =>
        LET swapped == get_alignment(token_gold, token_pred)
        IN  /\ (Len(result) = 0) <=> (Len(swapped) = 0)
            /\ (Len(token_pred) <= 1 \/ Len(token_gold) <= 1) =>
                   Len(result) = Len(swapped)

\* Witness of C4: both orders align something, and not the same number.
C4_Witness ==
    /\ fn = "get_alignment"
    /\ pc = "returned"
    /\ Len(result) > 0
    /\ Len(get_alignment(token_gold, token_pred)) > Len(result)

C6_EmptyGoldGuarded ==
    (fn = "compute_tokenization_score" /\ token_gold = << >>) =>
        (pc # "raised" /\ err # "ZeroDivisionError")

\* pred and gold are not empty and no form of pred is a form of gold
NoSharedForm ==
    /\ token_pred # << >>
    /\ token_gold # << >>
    /\ \A i \in 1..Len(token_pred), j \in 1..Len(token_gold) :
          token_pred[i].form # token_gold[j].form

\* C7: when pred and gold share no form, get_alignment returns the empty
\* list, compute_tokenization_score returns 0, and compute_accuracy and
\* compute_uas_las raise no error.
C7_NoSharedFormNoError ==
    NoSharedForm =>
        /\ pc # "raised"
        /\ (fn = "get_alignment" /\ pc = "returned") => result = << >>
        /\ (fn = "compute_tokenization_score" /\ pc = "returned") => result[1] = 0

-----------------------------------------------------------------------------
(* Properties of extract_tokens. *)

\* the lines that matched the id pattern and were parsed without an error
Loaded(k) ==
    /\ k \in 1..Len(lines)
    /\ MatchesRegexId(lines[k])
    /\ ~(pc = "raised" /\ k = Len(lines))

\* the positions in lines of the loaded lines, from position k on
RECURSIVE LoadedFrom(_)
LoadedFrom(k) ==
    IF k > Len(lines) THEN << >>
    ELSE (IF Loaded(k) THEN <<k>> ELSE << >>) \o LoadedFrom(k + 1)

\* the line that the n-th Word of res comes from
LineOfWord(n) == LoadedFrom(1)[n]

\* the original id and the head column of that line
OrigId(n) == IntOf(lines[LineOfWord(n)][1])
HeadColumn(n) == Complete(lines[LineOfWord(n)])[7]

\* the sentence of a line: the number of empty lines before it
SentenceOf(k) == Cardinality({j \in 1..k : lines[j] = BlankLine})

\* the rows of the sentence of the n-th Word have increasing ids
IncreasingIds(n) ==
    \A a, b \in 1..Len(res) :
        (/\ SentenceOf(LineOfWord(a)) = SentenceOf(LineOfWord(n))
         /\ SentenceOf(LineOfWord(b)) = SentenceOf(LineOfWord(n))
         /\ a < b) => OrigId(a) < OrigId(b)

\* C8: in the list extract_tokens returns, a Word whose row names as head the
\* id of another loaded row of its sentence has for head the new id of the
\* Word of that row, whatever the ids of the sentence (here: any increasing
\* ids).
C8_HeadsFollowRenumbering ==
    (fn = "extract_tokens" /\ pc = "returned") =>
        \A n, m \in 1..Len(result) :
            (/\ n # m
             /\ SentenceOf(LineOfWord(n)) = SentenceOf(LineOfWord(m))
             /\ IncreasingIds(n)
             /\ IsInt(HeadColumn(n))
             /\ IntOf(HeadColumn(n)) # 0
             /\ IntOf(HeadColumn(n)) = OrigId(m))
            => (/\ result[n].head = Some(result[m].id)
                /\ Cardinality({j \in 1..Len(result) :
                                   result[j].id = result[n].head[1]}) = 1)

\* C9: a Word loaded from a row with a head other than 0 has
\* head - id = original head - original id; a row with head 0 gives head 0
\* and a row with head '_' gives no head.
C9_HeadOffsetKept ==
    fn = "extract_tokens" =>
        \A n \in 1..Len(res) :
            LET column == HeadColumn(n)
            IN  /\ res[n].id = n
                /\ column = "_" => res[n].head = None
                /\ column = "0" => res[n].head = Some(0)
                /\ column \notin {"_", "0"} =>
                       /\ res[n].head # None
                       /\ res[n].head[1] - res[n].id = IntOf(column) - OrigId(n)

\* Witness of C9: after a first sentence of one Word, a Word whose id was
\* shifted, with a head other than 0 that was shifted with it, then a root
\* of a shifted id.
C9_Witness ==
    /\ fn = "extract_tokens"
    /\ pc = "returned"
    /\ Len(res) = 3
    /\ OrigId(2) = 1
    /\ HeadColumn(2) = "2"
    /\ res[2].head = Some(3)
    /\ OrigId(3) = 2
    /\ res[3].head = Some(0)

\* C10: a row with a numeric id and fewer than ten fields raises no error
\* and appends one Word with the next id whose misc is absent.
C10_ShortRowLoaded ==
    (/\ fn = "extract_tokens"
     /\ lines # << >>
     /\ MatchesRegexId(lines[Len(lines)])
     /\ Len(lines[Len(lines)]) < 10)
    => /\ pc # "raised"
       /\ res # << >>
       /\ res[Len(res)].id = new_id - 1
       /\ res[Len(res)].misc = None

====
